---------------------------- MODULE Spec2Model ----------------------------
(***************************************************************************)
(* A model of the locally written logic of the notebook                    *)
(* Finetune_PEFT_For_Materials_Science_Abstracts.ipynb:                    *)
(*   - computeLogP, the token-by-token log-probability scorer   (Spec)     *)
(*   - the paginated abstract fetch cell                        (SpecFetch)*)
(*   - the citation-count filtering cell                        (SpecCite) *)
(*                                                                         *)
(* Strings are sequences of one-character strings.  Log-probabilities are  *)
(* integers: log-softmax is taken in base 2 with the normaliser rounded    *)
(* up, so that values stay exact and non-positive.                         *)
(***************************************************************************)
EXTENDS Integers, Sequences, FiniteSets, TLC

VARIABLES
    \* ---- computeLogP ----
    text,                 \* the argument `abstract` as passed by the caller
    abstract_split,       \* `abstract` after line 316 rebinds it to the word list
    inputs,               \* prompt substring (line 317)
    outputs,              \* continuation substring (line 318)
    input_tokens,         \* line 320
    output_tokens,        \* line 321
    input_tokens_updated, \* lines 322, 340
    log_sum,              \* lines 323, 335
    logp_tokens,          \* lines 324, 336
    i,                    \* loop index of line 325 (number of finished steps)
    logit_predictions,    \* line 329, the logits of the latest forward call
    pc,                   \* position in computeLogP
    error,                \* the exception that left computeLogP, or "none"
    result,               \* the returned pair of line 344
    calls,                \* the inputs the model collaborator received, in order
    stdout,               \* what lines 341-342 printed, one entry per step
    model,                \* the global `model`: a next-token logit table
    \* ---- notebook cells ----
    id_list,              \* line 205
    db,                   \* what the literature database holds for each id
    fetch_i,              \* the loop variable `i` of line 210
    abstracts,            \* the global `abstracts`
    abstract,             \* the global `abstract` (lines 220, 265, 266)
    requests,             \* the id batches efetch was asked for, in order
    root,                 \* the parsed answer of the latest efetch
    citeNumbers,          \* line 249
    cited_abstracts,      \* line 250
    cite_pos,             \* position of the loop of line 251 in citeNumbers
    cell                  \* position in the notebook cells

scorerVars == <<text, abstract_split, inputs, outputs, input_tokens, output_tokens,
                input_tokens_updated, log_sum, logp_tokens, i, logit_predictions,
                pc, error, result, calls, stdout, model>>
cellVars == <<id_list, db, fetch_i, abstracts, abstract, requests, root, citeNumbers,
              cited_abstracts, cite_pos, cell>>
vars == <<scorerVars, cellVars>>

-----------------------------------------------------------------------------
(* Bounds of the model *)

MaxTextLen == 5
MaxTokens == 2
MaxIds == 250
MaxCiteIds == 3

Alphabet == {"a", " "}
Vocab == {0, 1}
LogitValues == {0, 1}

Texts == UNION {[1..n -> Alphabet] : n \in 0..MaxTextLen}
TokenSeqs == UNION {[1..n -> Vocab] : n \in 0..MaxTokens}
LogitVectors == [Vocab -> LogitValues]

Min(a, b) == IF a < b THEN a ELSE b

-----------------------------------------------------------------------------
(* Python string and list primitives used by computeLogP *)

\* str.split(sep) with an explicit one-character separator: every occurrence
\* of sep cuts, so adjacent, leading and trailing separators give empty pieces.
RECURSIVE Split(_, _)
Split(s, sep) ==
    IF s = <<>> THEN << <<>> >>
    ELSE IF Head(s) = sep THEN << <<>> >> \o Split(Tail(s), sep)
    ELSE LET r == Split(Tail(s), sep)
         IN  << <<Head(s)>> \o Head(r) >> \o Tail(r)

\* sep.join(pieces)
RECURSIVE Join(_, _)
Join(pieces, sep) ==
    IF pieces = <<>> THEN <<>>
    ELSE IF Len(pieces) = 1 THEN pieces[1]
    ELSE pieces[1] \o <<sep>> \o Join(Tail(pieces), sep)

\* list[:n] and list[n:]
SliceTo(l, n) == SubSeq(l, 1, Min(n, Len(l)))
SliceFrom(l, n) == SubSeq(l, n + 1, Len(l))

\* The number of leading words that form the prompt: the literal 2 of
\* abstract[:2] and abstract[2:].
PromptWords == 2

SplitAbstract(t) == Split(t, " ")
PromptOf(words) == Join(SliceTo(words, PromptWords), " ")
ContinuationOf(words) == Join(SliceFrom(words, PromptWords), " ")

\* tokenizer.encode(s, add_special_tokens=False): the set of answers the
\* external tokenizer may give.  The empty string has no tokens; for any other
\* string the tokenizer decides (a normalising tokenizer gives none for " ").
Encode(s) == IF s = <<>> THEN {<<>>} ELSE TokenSeqs

-----------------------------------------------------------------------------
(* The model collaborator and log-softmax *)

\* model(input_ids).logits: one logit vector per position.  The global model
\* is a table from the token at a position to the logits for its successor.
Forward(m, seq) == [p \in 1..Len(seq) |-> m[seq[p]]]

RECURSIVE Pow2(_)
Pow2(n) == IF n = 0 THEN 1 ELSE 2 * Pow2(n - 1)

RECURSIVE SumExp(_, _)
SumExp(vec, S) ==
    IF S = {} THEN 0
    ELSE LET t == CHOOSE x \in S : TRUE
         IN  Pow2(vec[t]) + SumExp(vec, S \ {t})

RECURSIVE CeilLog2From(_, _)
CeilLog2From(n, k) == IF Pow2(k) >= n THEN k ELSE CeilLog2From(n, k + 1)

\* torch.nn.functional.log_softmax(vec, dim=-1)
LogSoftmax(vec) ==
    LET z == CeilLog2From(SumExp(vec, DOMAIN vec), 0)
    IN  [t \in DOMAIN vec |-> vec[t] - z]

\* logit_predictions[0, -1, :]
LastTokenLogit_first(lp) == lp[1]
LastTokenLogit(lp) == lp[Len(lp)]

\* last_token_log_probs[output_tokens[0, i]].item()
LogTokenProb(lp, tok) == LogSoftmax(LastTokenLogit(lp))[tok]

\* log_sum += log_token_prob
AddLogSum_assign(ls, v) == v
AddLogSum(ls, v) == ls + v

\* logp_tokens.append(log_token_prob)
AppendLogp_front(l, v) == <<v>> \o l
AppendLogp(l, v) == Append(l, v)

\* torch.cat([input_tokens_updated, output_tokens[:, i:i+1]], dim=1)
Cat_prefix(seq, out, k) == seq \o SubSeq(out, 1, k + 1)
Cat(seq, out, k) == seq \o SubSeq(out, k + 1, k + 1)

NoResult == [returned |-> FALSE, log_sum |-> 0, logp_tokens |-> <<>>]
Returned(ls, l) == [returned |-> TRUE, log_sum |-> ls, logp_tokens |-> l]

-----------------------------------------------------------------------------
(* computeLogP *)

InitScorer ==
    /\ text \in Texts
    /\ model \in [Vocab -> LogitVectors]
    /\ abstract_split = <<>>
    /\ inputs = <<>>
    /\ outputs = <<>>
    /\ input_tokens = <<>>
    /\ output_tokens = <<>>
    /\ input_tokens_updated = <<>>
    /\ log_sum = 0
    /\ logp_tokens = <<>>
    /\ i = 0
    /\ logit_predictions = <<>>
    /\ pc = "start"
    /\ error = "none"
    /\ result = NoResult
    /\ calls = <<>>
    /\ stdout = <<>>

\* Lines 316-324: split, encode, clone, zero the accumulators.
Prepare ==
    /\ pc = "start"
    /\ abstract_split' = SplitAbstract(text)
    /\ inputs' = PromptOf(abstract_split')
    /\ outputs' = ContinuationOf(abstract_split')
    /\ input_tokens' \in Encode(inputs')
    /\ output_tokens' \in Encode(outputs')
    /\ input_tokens_updated' = input_tokens'
    /\ log_sum' = 0
    /\ logp_tokens' = <<>>
    /\ i' = 0
    /\ pc' = "loop"
    /\ UNCHANGED <<text, logit_predictions, error, result, calls, stdout, model>>
    /\ UNCHANGED cellVars

\* Lines 325-342, one iteration whose forward call answers.
LoopStep ==
    /\ pc = "loop"
    /\ i < Len(output_tokens)
    /\ input_tokens_updated # <<>>
    /\ calls' = Append(calls, input_tokens_updated)
    /\ logit_predictions' = Forward(model, input_tokens_updated)
    /\ LET log_token_prob == LogTokenProb(logit_predictions', output_tokens[i + 1])
       IN  /\ log_sum' = AddLogSum(log_sum, log_token_prob)
           /\ logp_tokens' = AppendLogp(logp_tokens, log_token_prob)
           /\ input_tokens_updated' = Cat(input_tokens_updated, output_tokens, i)
           /\ stdout' = Append(stdout, [seq |-> input_tokens_updated',
                                        token |-> output_tokens[i + 1],
                                        logprob |-> log_token_prob])
    /\ i' = i + 1
    /\ UNCHANGED <<text, abstract_split, inputs, outputs, input_tokens, output_tokens,
                   pc, error, result, model>>
    /\ UNCHANGED cellVars

\* Lines 328-332 raising: the model call fails, or (on an empty input
\* sequence) there is no last position to index.  Nothing in computeLogP
\* catches it, so the exception leaves the function.
LoopStepFail_retry ==
    /\ pc = "loop"
    /\ i < Len(output_tokens)
    /\ calls' = Append(calls, input_tokens_updated)
    /\ error' = "raised"
    /\ UNCHANGED <<text, abstract_split, inputs, outputs, input_tokens, output_tokens,
                   input_tokens_updated, log_sum, logp_tokens, i, logit_predictions,
                   pc, result, stdout, model>>
    /\ UNCHANGED cellVars

LoopStepFail ==
    /\ pc = "loop"
    /\ i < Len(output_tokens)
    /\ calls' = Append(calls, input_tokens_updated)
    /\ error' = "raised"
    /\ pc' = "failed"
    /\ UNCHANGED <<text, abstract_split, inputs, outputs, input_tokens, output_tokens,
                   input_tokens_updated, log_sum, logp_tokens, i, logit_predictions,
                   result, stdout, model>>
    /\ UNCHANGED cellVars

\* Lines 343-344.
Return ==
    /\ pc = "loop"
    /\ i = Len(output_tokens)
    /\ result' = Returned(log_sum, logp_tokens)
    /\ pc' = "done"
    /\ UNCHANGED <<text, abstract_split, inputs, outputs, input_tokens, output_tokens,
                   input_tokens_updated, log_sum, logp_tokens, i, logit_predictions,
                   error, calls, stdout, model>>
    /\ UNCHANGED cellVars


-----------------------------------------------------------------------------
(* The literature database and the two fetch cells *)

\* The length window of `if 800 < len(abstract) < 2200` (lines 221, 265),
\* the batch size of lines 210-211, and the constants of lines 234-235.
MinLen == 800
MaxLen == 2200
BatchSize == 100
MINCITES == 200
MAXABSTRACTS == 2000

\* An abstract text is known by the article it belongs to and its length.
AbstractLens == {MinLen, MinLen + 1, MaxLen - 1, MaxLen}
NoText == [pmid |-> 0, len |-> 0]
NoAbstract == [defined |-> FALSE, text |-> NoText]

\* What the database may hold for an id: no article, an article without
\* abstract text, or an article with an abstract of some length.
Kinds ==
    {[present |-> FALSE, hasText |-> FALSE, len |-> 0],
     [present |-> TRUE, hasText |-> FALSE, len |-> 0]}
    \cup {[present |-> TRUE, hasText |-> TRUE, len |-> n] : n \in AbstractLens}

\* Entrez.efetch(id=ids) followed by ET.fromstring and
\* root.findall('.//PubmedArticle'): the articles held for ids, in order.
Efetch(d, ids) ==
    LET all == [k \in 1..Len(ids) |->
                   [pmid |-> ids[k], hasText |-> d[ids[k]].hasText,
                    text |-> [pmid |-> ids[k], len |-> d[ids[k]].len]]]
        Held(a) == d[a.pmid].present
    IN  SelectSeq(all, Held)

\* The texts of the articles for which line 219 (263) holds, in order.
TextsOf(articles) ==
    LET HasText(a) == a.hasText
        withText == SelectSeq(articles, HasText)
    IN  [k \in 1..Len(withText) |-> withText[k].text]

\* 800 < len(t) < 2200
InWindow(t) == MinLen < t.len /\ t.len < MaxLen

\* id_list[k:k+100]
Batch_overlap(l, k) == SubSeq(l, k + 1, Min(k + BatchSize + 1, Len(l)))
Batch(l, k) == SubSeq(l, k + 1, Min(k + BatchSize, Len(l)))

IdleScorer ==
    /\ text = <<>>
    /\ model = [t \in Vocab |-> [u \in Vocab |-> 0]]
    /\ abstract_split = <<>>
    /\ inputs = <<>>
    /\ outputs = <<>>
    /\ input_tokens = <<>>
    /\ output_tokens = <<>>
    /\ input_tokens_updated = <<>>
    /\ log_sum = 0
    /\ logp_tokens = <<>>
    /\ i = 0
    /\ logit_predictions = <<>>
    /\ pc = "idle"
    /\ error = "none"
    /\ result = NoResult
    /\ calls = <<>>
    /\ stdout = <<>>

\* Lines 205-206: the state in which the loop of line 210 starts.
InitCells(n) ==
    /\ id_list = [k \in 1..n |-> k]
    /\ fetch_i = 0
    /\ abstracts = [kind |-> "list", val |-> <<>>]
    /\ abstract = NoAbstract
    /\ requests = <<>>
    /\ root = <<>>
    /\ citeNumbers = <<>>
    /\ cited_abstracts = <<>>
    /\ cite_pos = 0
    /\ cell = "fetch"

\* Lines 210-222, one iteration: fetch a batch, parse it, keep the abstracts
\* whose length is in the window.
FetchStep ==
    /\ cell = "fetch"
    /\ fetch_i < Len(id_list)
    /\ LET batch == Batch(id_list, fetch_i)
           articles == Efetch(db, batch)
           texts == TextsOf(articles)
       IN  /\ requests' = Append(requests, batch)
           /\ root' = articles
           /\ abstract' = IF texts = <<>> THEN abstract
                          ELSE [defined |-> TRUE, text |-> texts[Len(texts)]]
           /\ abstracts' = [abstracts EXCEPT !.val = @ \o SelectSeq(texts, InWindow)]
    /\ fetch_i' = fetch_i + BatchSize
    /\ UNCHANGED <<id_list, db, citeNumbers, cited_abstracts, cite_pos, cell>>
    /\ UNCHANGED scorerVars

\* The range of line 210 is exhausted; line 223.
FetchEnd ==
    /\ cell = "fetch"
    /\ fetch_i >= Len(id_list)
    /\ cell' = "fetched"
    /\ UNCHANGED <<id_list, db, fetch_i, abstracts, abstract, requests, root,
                   citeNumbers, cited_abstracts, cite_pos>>
    /\ UNCHANGED scorerVars

\* Lines 234-250: getcitations keeps, in id order, the pmids that elink
\* reports links for, each with its number of citing articles.
GetCitations ==
    /\ cell = "fetched"
    /\ \E f \in [1..Len(id_list) -> {0, MINCITES, MINCITES + 1}] :
          LET all == [k \in 1..Len(id_list) |-> [pmid |-> id_list[k], n |-> f[k]]]
              Linked(e) == e.n > 0
          IN  citeNumbers' = SelectSeq(all, Linked)
    /\ cited_abstracts' = <<>>
    /\ cite_pos' = 0
    /\ cell' = "cite"
    /\ UNCHANGED <<id_list, db, fetch_i, abstracts, abstract, requests, root>>
    /\ UNCHANGED scorerVars

\* Lines 251-266, one iteration of the loop over citeNumbers.keys().  Line 264
\* assigns the fetched text to `abstracts`; lines 265-266 read `abstract`,
\* which this cell never assigns: it is the value the fetch cell left, and a
\* NameError if the fetch cell left none (which needs an article whose text
\* the database gave to this cell and not to the fetch cell).
CiteStep ==
    /\ cell = "cite"
    /\ cite_pos < Len(citeNumbers)
    /\ LET entry == citeNumbers[cite_pos + 1]
           articles == Efetch(db, <<entry.pmid>>)
           texts == TextsOf(articles)
       IN  IF Len(cited_abstracts) > MAXABSTRACTS
           THEN /\ cell' = "cited"
                /\ UNCHANGED <<abstracts, requests, root, cited_abstracts, cite_pos>>
           ELSE IF entry.n > MINCITES
           THEN /\ requests' = Append(requests, <<entry.pmid>>)
                /\ root' = articles
                /\ abstracts' = IF texts = <<>> THEN abstracts
                                ELSE [kind |-> "str", val |-> <<texts[Len(texts)]>>]
                /\ IF texts # <<>> /\ ~abstract.defined
                   THEN /\ cell' = "error"
                        /\ UNCHANGED <<cited_abstracts, cite_pos>>
                   ELSE /\ cited_abstracts' =
                              IF abstract.defined /\ InWindow(abstract.text)
                              THEN cited_abstracts \o [k \in 1..Len(texts) |-> abstract.text]
                              ELSE cited_abstracts
                        /\ cite_pos' = cite_pos + 1
                        /\ UNCHANGED cell
           ELSE /\ cite_pos' = cite_pos + 1
                /\ UNCHANGED <<abstracts, requests, root, cited_abstracts, cell>>
    /\ UNCHANGED <<id_list, db, fetch_i, abstract, citeNumbers>>
    /\ UNCHANGED scorerVars

\* The loop of line 251 is exhausted.
CiteEnd ==
    /\ cell = "cite"
    /\ cite_pos = Len(citeNumbers)
    /\ cell' = "cited"
    /\ UNCHANGED <<id_list, db, fetch_i, abstracts, abstract, requests, root,
                   citeNumbers, cited_abstracts, cite_pos>>
    /\ UNCHANGED scorerVars

\* The fetch cell alone, on id lists of up to MaxIds ids; the database holds
\* one kind of article for the odd ids and one for the even ids.
InitFetch ==
    /\ IdleScorer
    /\ \E n \in 0..MaxIds : InitCells(n)
    /\ \E odd \in Kinds, even \in Kinds :
          db = [k \in 1..Len(id_list) |-> IF k % 2 = 1 THEN odd ELSE even]

NextFetch == FetchStep \/ FetchEnd

SpecFetch == InitFetch /\ [][NextFetch]_vars

\* The fetch cell followed by the citation cell, on short id lists and every
\* database content.
InitCite ==
    /\ IdleScorer
    /\ \E n \in 0..MaxCiteIds : InitCells(n)
    /\ db \in [1..Len(id_list) -> Kinds]

NextCite == FetchStep \/ FetchEnd \/ GetCitations \/ CiteStep \/ CiteEnd

SpecCite == InitCite /\ [][NextCite]_vars

-----------------------------------------------------------------------------
(* The cells are idle while computeLogP runs. *)

IdleCells ==
    /\ id_list = <<>>
    /\ db = <<>>
    /\ fetch_i = 0
    /\ abstracts = [kind |-> "list", val |-> <<>>]
    /\ abstract = NoAbstract
    /\ requests = <<>>
    /\ root = <<>>
    /\ citeNumbers = <<>>
    /\ cited_abstracts = <<>>
    /\ cite_pos = 0
    /\ cell = "idle"

Init == InitScorer /\ IdleCells

Next == Prepare \/ LoopStep \/ LoopStepFail \/ Return

Spec == Init /\ [][Next]_vars

-----------------------------------------------------------------------------
(* Notions the properties of computeLogP are stated with *)

RECURSIVE SumSeq(_)
SumSeq(l) == IF l = <<>> THEN 0 ELSE Head(l) + SumSeq(Tail(l))

Whitespace == {" ", "\t", "\n"}

\* The whitespace-delimited words of a text: maximal runs of non-whitespace.
RECURSIVE Words(_)
Words(s) ==
    IF s = <<>> THEN <<>>
    ELSE IF Head(s) \in Whitespace THEN Words(Tail(s))
    ELSE LET r == Words(Tail(s))
         IN  IF Len(s) > 1 /\ s[2] \notin Whitespace
             THEN << <<Head(s)>> \o Head(r) >> \o Tail(r)
             ELSE << <<Head(s)>> >> \o r

\* The token with the highest logit (the model's greedy choice).
Greedy(vec) == CHOOSE t \in DOMAIN vec : \A u \in DOMAIN vec : vec[u] <= vec[t]

\* C1: the accumulated sum is the arithmetic sum of the per-token list before
\* the first step, after every step of the loop, and in the returned pair.
C1_SumIsSumOfList ==
    /\ log_sum = SumSeq(logp_tokens)
    /\ result.returned => result.log_sum = SumSeq(result.logp_tokens)

C1_Witness ==
    /\ pc = "done"
    /\ Len(result.logp_tokens) = 2
    /\ result.logp_tokens[1] # result.logp_tokens[2]
    /\ result.log_sum = -3

\* C2: after i steps the per-token list has i entries; the k-th entry is the
\* value computed (and printed) for the k-th continuation token; a returned
\* list has one entry per continuation token.
C2_ListAlignedWithContinuation ==
    /\ Len(logp_tokens) = i
    /\ Len(stdout) = i
    /\ \A k \in 1..Len(logp_tokens) :
          /\ stdout[k].token = output_tokens[k]
          /\ logp_tokens[k] = stdout[k].logprob
    /\ result.returned =>
          /\ result.logp_tokens = logp_tokens
          /\ Len(result.logp_tokens) = Len(output_tokens)

C2_Witness ==
    /\ pc = "done"
    /\ Len(output_tokens) = 2
    /\ output_tokens[1] # output_tokens[2]
    /\ result.logp_tokens[1] # result.logp_tokens[2]

\* C3: the k-th forward call (k = 1..N) receives the prompt tokens followed
\* by the first k-1 continuation tokens; calls are made one per step, the
\* growing sequence is the prompt extended by the i tokens processed so far,
\* and a call that returns has made exactly N forward calls.
C3_ForwardCallsGrow ==
    /\ \A k \in 1..Len(calls) :
          /\ calls[k] = input_tokens \o SubSeq(output_tokens, 1, k - 1)
          /\ Len(calls[k]) = Len(input_tokens) + (k - 1)
    /\ pc \in {"loop", "done"} =>
          /\ Len(calls) = i
          /\ input_tokens_updated = input_tokens \o SubSeq(output_tokens, 1, i)
    /\ pc = "done" => Len(calls) = Len(output_tokens)

C3_Witness ==
    /\ pc = "done"
    /\ Len(Words(text)) = 3
    /\ Len(input_tokens) = 2
    /\ Len(output_tokens) = 2
    /\ output_tokens[1] # output_tokens[2]
    /\ Len(calls) = 2

\* C4: the value appended at a step is the log-softmax of the logits at the
\* last position of that step's forward output, read at the actual
\* continuation token of the step.
C4_TeacherForcedLastPosition ==
    (pc \in {"loop", "done"} /\ i > 0) =>
        logp_tokens[i] =
            LogSoftmax(logit_predictions[Len(logit_predictions)])[output_tokens[i]]

\* A step where the greedy token and the first position would both have
\* given another value.
C4_Witness ==
    /\ pc = "loop"
    /\ i > 0
    /\ Len(logit_predictions) > 1
    /\ LET last == LogSoftmax(logit_predictions[Len(logit_predictions)])
           first == LogSoftmax(logit_predictions[1])
       IN  /\ last[Greedy(last)] # logp_tokens[i]
           /\ first[output_tokens[i]] # logp_tokens[i]

\* C5: the prompt substring is the first PromptWords whitespace-delimited
\* words joined by single spaces and the continuation substring is the
\* remaining words, also with leading, trailing or repeated whitespace.
C5_SplitOnWhitespace ==
    pc # "start" =>
        /\ inputs = Join(SliceTo(Words(text), PromptWords), " ")
        /\ outputs = Join(SliceFrom(Words(text), PromptWords), " ")

\* C6: a text of at most PromptWords whitespace-delimited words has an empty
\* continuation and returns (0, []) without any forward call.
C6_ShortTextReturnsZero ==
    (pc # "start" /\ Len(Words(text)) <= PromptWords) =>
        /\ outputs = <<>>
        /\ calls = <<>>
        /\ pc # "failed"
        /\ pc = "done" => result = Returned(0, <<>>)

\* C7: with a non-empty continuation substring, a tokenizer answer of zero
\* tokens for the prompt or for the continuation ends the call with an
\* EncodingError: no forward call on an empty sequence, no returned pair.
C7_EmptyEncodingIsAnError ==
    (pc # "start" /\ outputs # <<>> /\ (input_tokens = <<>> \/ output_tokens = <<>>)) =>
        /\ \A k \in 1..Len(calls) : calls[k] # <<>>
        /\ ~result.returned
        /\ pc \in {"done", "failed"} => error = "EncodingError"

\* C8: a failing forward call ends the scoring call at once: the failed call
\* is the last one made (no retry, no later call) and the caller gets the
\* failure, never a sum or a list.
C8_ForwardFailureSurfaces ==
    /\ error # "none" =>
          /\ pc = "failed"
          /\ Len(calls) = i + 1
          /\ ~result.returned
    /\ pc = "failed" => error # "none" /\ result = NoResult

C8_Witness ==
    /\ pc = "failed"
    /\ i = 1
    /\ Len(output_tokens) = 2
    /\ log_sum # 0
    /\ Len(calls) = 2

-----------------------------------------------------------------------------
(* Properties of the fetch cells *)

RECURSIVE Flatten(_)
Flatten(ll) == IF ll = <<>> THEN <<>> ELSE Head(ll) \o Flatten(Tail(ll))

CeilDiv(a, b) == (a + b - 1) \div b

\* C9: every string the citation cell appends to cited_abstracts is the text
\* of an article fetched in that iteration, for a pmid cited more than
\* MINCITES times, with a length strictly between 800 and 2200; the cell
\* leaves the list `abstracts` of the fetch cell as it was.
C9_CitedAbstractsAreFetchedAndFiltered ==
    [][cell = "cite" =>
          /\ abstracts' = abstracts
          /\ \A k \in (Len(cited_abstracts) + 1)..Len(cited_abstracts') :
                /\ citeNumbers[cite_pos + 1].n > MINCITES
                /\ requests' = Append(requests, <<citeNumbers[cite_pos + 1].pmid>>)
                /\ \E a \in 1..Len(root') :
                      /\ root'[a].hasText
                      /\ root'[a].text = cited_abstracts'[k]
                /\ MinLen < cited_abstracts'[k].len
                /\ cited_abstracts'[k].len < MaxLen]_vars

\* C10: the fetch loop asks for consecutive batches of at most 100 ids that
\* together are id_list, each id once and in order, and it ends after
\* ceil(len(id_list)/100) requests (none for an empty list).
C10_BatchesPartitionIdList ==
    cell \in {"fetch", "fetched"} =>
        /\ \A k \in 1..Len(requests) :
              /\ Len(requests[k]) >= 1
              /\ Len(requests[k]) <= BatchSize
              /\ requests[k] = SubSeq(id_list, (k - 1) * BatchSize + 1,
                                      Min(k * BatchSize, Len(id_list)))
        /\ Flatten(requests) = SubSeq(id_list, 1, Min(fetch_i, Len(id_list)))
        /\ Len(requests) <= CeilDiv(Len(id_list), BatchSize)
        /\ (Len(requests) = CeilDiv(Len(id_list), BatchSize)) <=> (fetch_i >= Len(id_list))
        /\ cell = "fetched" =>
              /\ Flatten(requests) = id_list
              /\ Len(requests) = CeilDiv(Len(id_list), BatchSize)

C10_Witness ==
    /\ cell = "fetched"
    /\ Len(id_list) > 2 * BatchSize
    /\ Len(requests) = 3
    /\ Len(requests[3]) < BatchSize
    /\ Len(abstracts.val) > BatchSize

=============================================================================
